---- MODULE Spec2Model ----
(***************************************************************************)
(* A model of russbt/lego:                                                 *)
(*   - package certcrypto (emca/certificate/certcrypto/crypto.go): the    *)
(*     PEM codec, the bundle parser, key and CSR generation and the       *)
(*     self-signed certificate generator, as pure functions applied to    *)
(*     inputs drawn from bounded sets (specification Spec);               *)
(*   - the Aurora DNS provider (unnamed/part_000): Present and CleanUp    *)
(*     run by concurrent callers on one DNSProvider (SpecAurora).         *)
(***************************************************************************)
EXTENDS Integers, Sequences, FiniteSets, TLC

VARIABLES
    op,           \* certcrypto: the function last called
    arg,          \* certcrypto: its arguments
    ret,          \* certcrypto: what it returned: [val, err, panic]
    recordIDs,    \* DNSProvider.recordIDs: fqdn -> record id (NoID: no entry)
    recordIDsMu,  \* DNSProvider.recordIDsMu: 0 when free, else the holder
    pc,           \* per caller: where it is in Present / CleanUp
    frame,        \* per caller: the locals domain, fqdn, recordID
    remote,       \* the Aurora service: ids of the TXT records that exist
    created,      \* the Aurora service: how many records were ever created
    deleteCalls,  \* per record id: DeleteRecord calls the service answered
    calls         \* the Present / CleanUp calls so far: how many were started,
                  \* and whether one returned an error

cryptoVars == <<op, arg, ret>>
auroraVars == <<recordIDs, recordIDsMu, pc, frame, remote, created, deleteCalls, calls>>
vars == <<op, arg, ret, recordIDs, recordIDsMu, pc, frame, remote, created,
          deleteCalls, calls>>

----------------------------------------------------------------------------
(* Bounds of the model *)

\* the longest input stream, in PEM blocks and stretches of other text
MaxBlocks == 3
\* how many distinct outcomes the random source has
MaxRand == 2
\* the longest SAN list
MaxSan == 2

----------------------------------------------------------------------------
(* Go values *)

NoErr == "nil"

\* a nil pointer, nil interface or nil byte slice
Nil == [gotype |-> "nil"]

\* a returned pair (value, error)
Return(val, err) == [val |-> val, err |-> err, panic |-> FALSE]

\* a nil pointer dereference: the runtime panics and nothing is returned
Panic == [val |-> Nil, err |-> "panic: nil pointer dereference", panic |-> TRUE]

\* time.Time as seconds and nanoseconds since the zero instant
Time(sec, nsec) == [sec |-> sec, nsec |-> nsec]

\* time.Time{}
ZeroTime == Time(0, 0)

\* Time.IsZero
IsZero(t) == t.sec = 0 /\ t.nsec = 0

\* time.Second, in nanoseconds, the unit of time.Duration
Second == 1000 * 1000 * 1000

\* Time.Add(d), d a time.Duration: a count of nanoseconds
TimeAdd(t, d) ==
    LET n == t.nsec + (d % Second)
    IN  Time(t.sec + (d \div Second) + (n \div Second), n % Second)

\* Time.Before
Before(t, u) == t.sec < u.sec \/ (t.sec = u.sec /\ t.nsec < u.nsec)

----------------------------------------------------------------------------
(* Keys *)

EC256 == "P256"
EC384 == "P384"
RSA2048 == "2048"
RSA4096 == "4096"
RSA8192 == "8192"

\* ecdsa.GenerateKey(curve, rand.Reader); r is what the random source gave
ecdsaGenerateKey(curve, r) ==
    Return([gotype |-> "*ecdsa.PrivateKey", curve |-> curve, rand |-> r], NoErr)

\* rsa.GenerateKey(rand.Reader, bits)
rsaGenerateKey(bits, r) ==
    Return([gotype |-> "*rsa.PrivateKey", bits |-> bits, rand |-> r], NoErr)

\* a plausible slip: RSA4096 copied from the RSA2048 case
GeneratePrivateKeyWrongSize(keyType, r) ==
    CASE keyType = EC256 -> ecdsaGenerateKey("P-256", r)
      [] keyType = EC384 -> ecdsaGenerateKey("P-384", r)
      [] keyType = RSA2048 -> rsaGenerateKey(2048, r)
      [] keyType = RSA4096 -> rsaGenerateKey(2048, r)
      [] keyType = RSA8192 -> rsaGenerateKey(8192, r)
      [] OTHER -> Return(Nil, "invalid KeyType")

GeneratePrivateKey(keyType, r) ==
    CASE keyType = EC256 -> ecdsaGenerateKey("P-256", r)
      [] keyType = EC384 -> ecdsaGenerateKey("P-384", r)
      [] keyType = RSA2048 -> rsaGenerateKey(2048, r)
      [] keyType = RSA4096 -> rsaGenerateKey(4096, r)
      [] keyType = RSA8192 -> rsaGenerateKey(8192, r)
      [] OTHER -> Return(Nil, "invalid KeyType")

----------------------------------------------------------------------------
(* DER payloads and PEM streams *)

\* DER bytes: what they encode (form, body) and whether the encoding is whole
DER(form, body) == [form |-> form, body |-> body, intact |-> TRUE]

\* the same bytes cut short
Truncated(der) == [der EXCEPT !.intact = FALSE]

\* x509.ParseCertificate
x509ParseCertificate(der) ==
    IF der # Nil /\ der.form = "cert" /\ der.intact
    THEN Return([gotype |-> "*x509.Certificate", Raw |-> der,
                 NotAfter |-> der.body.NotAfter], NoErr)
    ELSE Return(Nil, "x509: malformed certificate")

\* x509.ParseCertificateRequest
x509ParseCertificateRequest(der) ==
    IF der # Nil /\ der.form = "csr" /\ der.intact
    THEN Return([gotype |-> "*x509.CertificateRequest", Raw |-> der,
                 Subject |-> der.body.Subject, DNSNames |-> der.body.DNSNames,
                 Extensions |-> der.body.ExtraExtensions], NoErr)
    ELSE Return(Nil, "asn1: structure error")

\* x509.MarshalPKCS1PrivateKey / x509.ParsePKCS1PrivateKey
x509MarshalPKCS1PrivateKey(key) == DER("rsakey", key)

x509ParsePKCS1PrivateKey(der) ==
    IF der # Nil /\ der.form = "rsakey" /\ der.intact
    THEN Return(der.body, NoErr)
    ELSE Return(Nil, "x509: failed to parse private key")

\* x509.MarshalECPrivateKey / x509.ParseECPrivateKey
x509MarshalECPrivateKey(key) == DER("eckey", key)

x509ParseECPrivateKey(der) ==
    IF der # Nil /\ der.form = "eckey" /\ der.intact
    THEN Return(der.body, NoErr)
    ELSE Return(Nil, "x509: failed to parse EC private key")

\* *pem.Block
Block(type, bytes) == [Type |-> type, Bytes |-> bytes]

\* a stretch of input that holds no complete PEM block: free text, or a block
\* whose armor is broken (no END line, bad base64)
Junk == [Type |-> "", Bytes |-> Nil, junk |-> TRUE]

IsBlock(item) == item # Junk

\* pem.Decode(data): the first PEM block of data and the input after it, or
\* a nil block and the input unchanged when data holds no block
RECURSIVE pem_Decode(_)
pem_Decode(data) ==
    IF data = <<>> THEN [block |-> Nil, rest |-> data]
    ELSE IF IsBlock(Head(data)) THEN [block |-> Head(data), rest |-> Tail(data)]
    ELSE LET d == pem_Decode(Tail(data))
         IN  IF d.block = Nil THEN [block |-> Nil, rest |-> data] ELSE d

\* pem.EncodeToMemory(b): Encode reads b.Headers and b.Type
pem_EncodeToMemory(b) ==
    IF b = Nil THEN Panic ELSE Return(<<b>>, NoErr)

----------------------------------------------------------------------------
(* ParsePEMBundle *)

\* a plausible slip: the new certificate is put in front
PrependCert(certificates, cert) == <<cert>> \o certificates

\* certificates = append(certificates, cert)
AppendCert(certificates, cert) == Append(certificates, cert)

\* a plausible slip: the certificates parsed so far are returned with the error
ReturnPartial(certificates, err) == Return(certificates, err)

\* return nil, err
ParseFailure(certificates, err) == Return(<<>>, err)

\* a plausible slip: the emptiness check is left out
ReturnCollected(certificates) == Return(certificates, NoErr)

\* the end of ParsePEMBundle, after the loop
BundleResult(certificates) ==
    IF Len(certificates) = 0
    THEN Return(<<>>, "no certificates were found while parsing the bundle")
    ELSE Return(certificates, NoErr)

\* the loop of ParsePEMBundle
RECURSIVE ParseLoop(_, _)
ParseLoop(bundle, certificates) ==
    LET d == pem_Decode(bundle)
    IN  IF d.block = Nil THEN BundleResult(certificates)
        ELSE IF d.block.Type = "CERTIFICATE"
             THEN LET p == x509ParseCertificate(d.block.Bytes)
                  IN  IF p.err # NoErr
                      THEN ParseFailure(certificates, p.err)
                      ELSE ParseLoop(d.rest, AppendCert(certificates, p.val))
             ELSE ParseLoop(d.rest, certificates)

ParsePEMBundle(bundle) == ParseLoop(bundle, <<>>)

----------------------------------------------------------------------------
(* The PEM decoders *)

ParsePEMPrivateKey(key) ==
    LET keyBlock == pem_Decode(key).block
    IN  IF keyBlock = Nil THEN Panic  \* keyBlock.Type on a nil *pem.Block
        ELSE CASE keyBlock.Type = "RSA PRIVATE KEY" ->
                      x509ParsePKCS1PrivateKey(keyBlock.Bytes)
               [] keyBlock.Type = "EC PRIVATE KEY" ->
                      x509ParseECPrivateKey(keyBlock.Bytes)
               [] OTHER -> Return(Nil, "unknown PEM header value")

pemDecode(data) ==
    LET pemBlock == pem_Decode(data).block
    IN  IF pemBlock = Nil
        THEN Return(Nil, "Pem decode did not yield a valid block. Is the certificate in the right format?")
        ELSE Return(pemBlock, NoErr)

PemDecodeTox509CSR(pem) ==
    LET r == pemDecode(pem)
    IN  IF r.val = Nil THEN Return(Nil, r.err)
        ELSE IF r.val.Type # "CERTIFICATE REQUEST"
             THEN Return(Nil, "PEM block is not a certificate request")
             ELSE x509ParseCertificateRequest(r.val.Bytes)

getCertExpiration(cert) ==
    LET r == x509ParseCertificate(cert)
    IN  IF r.err # NoErr THEN Return(ZeroTime, r.err)
        ELSE Return(r.val.NotAfter, NoErr)

GetPEMCertExpiration(cert) ==
    LET r == pemDecode(cert)
    IN  IF r.val = Nil THEN Return(ZeroTime, r.err)
        ELSE getCertExpiration(r.val.Bytes)

----------------------------------------------------------------------------
(* GenerateCsr *)

tlsFeatureExtensionOID == <<1, 3, 6, 1, 5, 5, 7, 1, 24>>

\* 0x30, 0x03, 0x02, 0x01, 0x05
ocspMustStapleFeature == <<48, 3, 2, 1, 5>>

\* pkix.Extension
Extension(id, value) == [Id |-> id, Value |-> value]

\* whether the key is one x509 can sign with (a crypto.Signer: RSA or ECDSA)
IsSigner(privateKey) ==
    privateKey.gotype \in {"*ecdsa.PrivateKey", "*rsa.PrivateKey"}

\* x509.CreateCertificateRequest(rand.Reader, &template, privateKey)
x509CreateCertificateRequest(template, privateKey) ==
    IF IsSigner(privateKey)
    THEN Return(DER("csr", [Subject |-> template.Subject,
                            DNSNames |-> template.DNSNames,
                            ExtraExtensions |-> template.ExtraExtensions,
                            SignedBy |-> privateKey]), NoErr)
    ELSE Return(Nil, "x509: certificate private key does not implement crypto.Signer")

\* a plausible slip: the must-staple flag is not looked at
CsrExtensionsAlways(mustStaple) ==
    <<Extension(tlsFeatureExtensionOID, ocspMustStapleFeature)>>

\* template.ExtraExtensions, from nil
CsrExtensions(mustStaple) ==
    IF mustStaple
    THEN Append(<<>>, Extension(tlsFeatureExtensionOID, ocspMustStapleFeature))
    ELSE <<>>

GenerateCsr(privateKey, domain, san, mustStaple) ==
    LET template == [Subject |-> [CommonName |-> domain],
                     DNSNames |-> IF Len(san) > 0 THEN san ELSE <<>>,
                     ExtraExtensions |-> CsrExtensions(mustStaple)]
    IN  x509CreateCertificateRequest(template, privateKey)

----------------------------------------------------------------------------
(* PEMEncode *)

\* the *pem.Block the type switch of PEMEncode leaves in pemBlock
PEMEncodeBlock(data) ==
    CASE data.gotype = "*ecdsa.PrivateKey" ->
             Block("EC PRIVATE KEY", x509MarshalECPrivateKey(data))
      [] data.gotype = "*rsa.PrivateKey" ->
             Block("RSA PRIVATE KEY", x509MarshalPKCS1PrivateKey(data))
      [] data.gotype = "*x509.CertificateRequest" ->
             Block("CERTIFICATE REQUEST", data.Raw)
      [] data.gotype = "DERCertificateBytes" ->
             Block("CERTIFICATE", data.bytes)
      [] OTHER -> Nil

PEMEncode(data) == pem_EncodeToMemory(PEMEncodeBlock(data))

----------------------------------------------------------------------------
(* The self-signed certificate *)

\* x509.CreateCertificate(rand.Reader, &template, &template, pub, priv)
x509CreateCertificate(template, parent, pub, priv) ==
    IF IsSigner(priv)
    THEN Return(DER("cert", [SerialNumber |-> template.SerialNumber,
                             Subject |-> template.Subject,
                             Issuer |-> parent.Subject,
                             NotBefore |-> template.NotBefore,
                             NotAfter |-> template.NotAfter,
                             KeyUsage |-> template.KeyUsage,
                             IsCA |-> FALSE,
                             DNSNames |-> template.DNSNames,
                             ExtraExtensions |-> template.ExtraExtensions,
                             PublicKey |-> pub,
                             SignedBy |-> priv]), NoErr)
    ELSE Return(Nil, "x509: certificate private key does not implement crypto.Signer")

\* the fallback of generateDerCert: time.Now().Add(365), 365 a time.Duration
DefaultExpiration(now) == TimeAdd(now, 365)

\* generateDerCert; serial is what rand.Int gave, now the clock when the
\* function is entered, elapsed the nanoseconds that pass before the second
\* reading of the clock (the first is taken only when expiration is zero)
generateDerCert(privKey, expiration, domain, extensions, serial, now, elapsed) ==
    IF privKey = Nil THEN Panic  \* privKey.PublicKey on a nil *rsa.PrivateKey
    ELSE
    LET exp == IF IsZero(expiration) THEN DefaultExpiration(now) ELSE expiration
        template == [SerialNumber |-> serial,
                     Subject |-> [CommonName |-> "ACME Challenge TEMP"],
                     NotBefore |-> IF IsZero(expiration) THEN TimeAdd(now, elapsed)
                                   ELSE now,
                     NotAfter |-> exp,
                     KeyUsage |-> "KeyEncipherment",
                     BasicConstraintsValid |-> TRUE,
                     DNSNames |-> <<domain>>,
                     ExtraExtensions |-> extensions]
    IN  x509CreateCertificate(template, template, [of |-> privKey], privKey)

GeneratePemCert(privKey, domain, extensions, serial, now, elapsed) ==
    LET r == generateDerCert(privKey, ZeroTime, domain, extensions, serial, now, elapsed)
    IN  IF r.panic THEN r
        ELSE IF r.err # NoErr THEN Return(Nil, r.err)
        ELSE pem_EncodeToMemory(Block("CERTIFICATE", r.val))

----------------------------------------------------------------------------
(* Inputs of the certcrypto functions *)

RECURSIVE SeqsUpTo(_, _)
SeqsUpTo(S, n) ==
    IF n = 0 THEN {<<>>}
    ELSE LET shorter == SeqsUpTo(S, n - 1)
         IN  shorter \cup {Append(q, x) : q \in shorter, x \in S}

KeyTypes == {EC256, EC384, RSA2048, RSA4096, RSA8192}

\* KeyType is a string type: any string can be passed
KeyTypeInputs == KeyTypes \cup {"", "P521", "1024", "p256"}

Keys == {GeneratePrivateKey(k, r).val : k \in KeyTypes, r \in 1..MaxRand}

RSAKeys == {k \in Keys : k.gotype = "*rsa.PrivateKey"}

Domains == {"example.com", ""}

SanNames == {"a.example.com", "b.example.com"}

SanLists == SeqsUpTo(SanNames, MaxSan)

\* a parsable certificate
Cert(i) == DER("cert", [SerialNumber |-> i, NotAfter |-> Time(2000 + i, 0)])

SomeCsr == GenerateCsr(GeneratePrivateKey(EC256, 1).val, "example.com",
                       <<"a.example.com">>, TRUE).val

SomeRSAKey == GeneratePrivateKey(RSA2048, 1).val

SomeECKey == GeneratePrivateKey(EC384, 1).val

StreamItems ==
    { Junk,
      Block("CERTIFICATE", Cert(1)),
      Block("CERTIFICATE", Cert(2)),
      Block("CERTIFICATE", Truncated(Cert(1))),
      Block("CERTIFICATE REQUEST", SomeCsr),
      Block("RSA PRIVATE KEY", x509MarshalPKCS1PrivateKey(SomeRSAKey)),
      Block("EC PRIVATE KEY", x509MarshalECPrivateKey(SomeECKey)) }

Streams == SeqsUpTo(StreamItems, MaxBlocks)

\* values of the types PEMEncode has a case for, and of some it has none for
EncodableValues ==
    Keys
    \cup {x509ParseCertificateRequest(SomeCsr).val}
    \cup {[gotype |-> "DERCertificateBytes", bytes |-> Cert(i)] : i \in 1..MaxRand}

OtherValues ==
    { Nil,
      [gotype |-> "string", text |-> "example.com"],
      [gotype |-> "[]byte", bytes |-> Cert(1)],
      [gotype |-> "*x509.Certificate", Raw |-> Cert(1), NotAfter |-> Time(2001, 0)] }

Clock == {Time(1000, 0), Time(1000, Second - 100)}

Elapsed == {0, 100, 1000}

Expirations == {ZeroTime, Time(1000, 500), Time(90000, 0)}

ExtensionLists == {<<>>, <<Extension(<<1, 3, 6, 1, 5, 5, 7, 1, 31>>, <<4, 0>>)>>}

----------------------------------------------------------------------------
(* Calls of the certcrypto functions: each behaviour makes one call *)

CallParsePEMBundle ==
    /\ op = "none"
    /\ \E bundle \in Streams :
        /\ op' = "ParsePEMBundle"
        /\ arg' = [data |-> bundle]
        /\ ret' = ParsePEMBundle(bundle)
    /\ UNCHANGED auroraVars

CallParsePEMPrivateKey ==
    /\ op = "none"
    /\ \E key \in Streams :
        /\ op' = "ParsePEMPrivateKey"
        /\ arg' = [data |-> key]
        /\ ret' = ParsePEMPrivateKey(key)
    /\ UNCHANGED auroraVars

CallPemDecode ==
    /\ op = "none"
    /\ \E data \in Streams :
        /\ op' = "pemDecode"
        /\ arg' = [data |-> data]
        /\ ret' = pemDecode(data)
    /\ UNCHANGED auroraVars

CallPemDecodeTox509CSR ==
    /\ op = "none"
    /\ \E pem \in Streams :
        /\ op' = "PemDecodeTox509CSR"
        /\ arg' = [data |-> pem]
        /\ ret' = PemDecodeTox509CSR(pem)
    /\ UNCHANGED auroraVars

CallGetPEMCertExpiration ==
    /\ op = "none"
    /\ \E cert \in Streams :
        /\ op' = "GetPEMCertExpiration"
        /\ arg' = [data |-> cert]
        /\ ret' = GetPEMCertExpiration(cert)
    /\ UNCHANGED auroraVars

CallGeneratePrivateKey ==
    /\ op = "none"
    /\ \E keyType \in KeyTypeInputs, r \in 1..MaxRand :
        /\ op' = "GeneratePrivateKey"
        /\ arg' = [keyType |-> keyType]
        /\ ret' = GeneratePrivateKey(keyType, r)
    /\ UNCHANGED auroraVars

CallGenerateCsr ==
    /\ op = "none"
    /\ \E privateKey \in Keys \cup {Nil}, domain \in Domains, san \in SanLists,
          mustStaple \in BOOLEAN :
        /\ op' = "GenerateCsr"
        /\ arg' = [privateKey |-> privateKey, domain |-> domain, san |-> san,
                   mustStaple |-> mustStaple]
        /\ ret' = GenerateCsr(privateKey, domain, san, mustStaple)
    /\ UNCHANGED auroraVars

CallPEMEncode ==
    /\ op = "none"
    /\ \E data \in EncodableValues \cup OtherValues :
        /\ op' = "PEMEncode"
        /\ arg' = [data |-> data]
        /\ ret' = PEMEncode(data)
    /\ UNCHANGED auroraVars

CallGenerateDerCert ==
    /\ op = "none"
    /\ \E privKey \in RSAKeys \cup {Nil}, expiration \in Expirations,
          domain \in Domains, extensions \in ExtensionLists,
          serial \in 1..MaxRand, now \in Clock, elapsed \in Elapsed :
        /\ op' = "generateDerCert"
        /\ arg' = [privKey |-> privKey, expiration |-> expiration,
                   domain |-> domain, extensions |-> extensions, now |-> now]
        /\ ret' = generateDerCert(privKey, expiration, domain, extensions,
                                  serial, now, elapsed)
    /\ UNCHANGED auroraVars

CallGeneratePemCert ==
    /\ op = "none"
    /\ \E privKey \in RSAKeys \cup {Nil}, domain \in Domains,
          extensions \in ExtensionLists, serial \in 1..MaxRand, now \in Clock,
          elapsed \in Elapsed :
        /\ op' = "GeneratePemCert"
        /\ arg' = [privKey |-> privKey, expiration |-> ZeroTime,
                   domain |-> domain, extensions |-> extensions, now |-> now]
        /\ ret' = GeneratePemCert(privKey, domain, extensions, serial, now, elapsed)
    /\ UNCHANGED auroraVars

----------
(* The Aurora DNS provider: one DNSProvider, concurrent callers *)

\* how many goroutines call Present and CleanUp on the provider
NumProcs == 2
\* how many calls of Present and CleanUp are started in all
MaxCalls == 3

Procs == 1..NumProcs

\* the record ids the service can hand out
RecordIDs == 1..MaxCalls

AuroraDomains == {"example.com", "example.org"}

\* the fqdn of acme.DNS01Record(domain, keyAuth): "_acme-challenge.<domain>."
DNS01Fqdn(domain) == <<"_acme-challenge", domain>>

\* the locals of a caller that is in no call
NoFrame == [domain |-> "", fqdn |-> <<>>, recordID |-> 0]

\* d.recordIDs[fqdn] = id
MapStore(m, fqdn, id) ==
    [f \in DOMAIN m \cup {fqdn} |-> IF f = fqdn THEN id ELSE m[f]]

\* delete(d.recordIDs, fqdn)
MapDelete(m, fqdn) == [f \in DOMAIN m \ {fqdn} |-> m[f]]

AuroraUnchanged == UNCHANGED cryptoVars

\* the call of caller p returns; failed tells whether it returns an error
ReturnFrom(p, failed) ==
    /\ pc' = [pc EXCEPT ![p] = "idle"]
    /\ frame' = [frame EXCEPT ![p] = NoFrame]
    /\ calls' = [calls EXCEPT !.failed = @ \/ failed]

\* Present, to the zone lookups: DNS01Record, FindZoneByFqdn,
\* getZoneInformationByName; the lookups go to the network and may fail
PresentBegin(p) ==
    /\ pc[p] = "idle"
    /\ calls.started < MaxCalls
    /\ \E domain \in AuroraDomains, found \in BOOLEAN :
        IF found
        THEN /\ pc' = [pc EXCEPT ![p] = "P_create"]
             /\ frame' = [frame EXCEPT ![p] = [domain |-> domain,
                                               fqdn |-> DNS01Fqdn(domain),
                                               recordID |-> 0]]
             /\ calls' = [calls EXCEPT !.started = @ + 1]
        ELSE /\ pc' = pc
             /\ frame' = frame
             /\ calls' = [calls EXCEPT !.started = @ + 1, !.failed = TRUE]
    /\ UNCHANGED <<recordIDs, recordIDsMu, remote, created, deleteCalls>>
    /\ AuroraUnchanged

\* d.client.CreateRecord(zone.ID, record): the service creates the record
\* and gives it a fresh id, or the call fails
PresentCreateRecord(p) ==
    /\ pc[p] = "P_create"
    /\ \/ /\ created' = created + 1
          /\ remote' = remote \cup {created + 1}
          /\ frame' = [frame EXCEPT ![p].recordID = created + 1]
          /\ pc' = [pc EXCEPT ![p] = "P_lock"]
          /\ calls' = calls
       \/ /\ ReturnFrom(p, TRUE)
          /\ UNCHANGED <<created, remote>>
    /\ UNCHANGED <<recordIDs, recordIDsMu, deleteCalls>>
    /\ AuroraUnchanged

\* d.recordIDsMu.Lock() in Present
PresentLock(p) ==
    /\ pc[p] = "P_lock"
    /\ recordIDsMu = 0
    /\ recordIDsMu' = p
    /\ pc' = [pc EXCEPT ![p] = "P_store"]
    /\ UNCHANGED <<recordIDs, frame, remote, created, deleteCalls, calls>>
    /\ AuroraUnchanged

\* d.recordIDs[fqdn] = newRecord.ID; Unlock; return nil
PresentStore(p) ==
    /\ pc[p] = "P_store"
    /\ recordIDs' = MapStore(recordIDs, frame[p].fqdn, frame[p].recordID)
    /\ recordIDsMu' = 0
    /\ ReturnFrom(p, FALSE)
    /\ UNCHANGED <<remote, created, deleteCalls>>
    /\ AuroraUnchanged

\* CleanUp, to its first d.recordIDsMu.Lock()
CleanUpBegin(p) ==
    /\ pc[p] = "idle"
    /\ calls.started < MaxCalls
    /\ recordIDsMu = 0
    /\ recordIDsMu' = p
    /\ \E domain \in AuroraDomains :
        frame' = [frame EXCEPT ![p] = [domain |-> domain,
                                       fqdn |-> DNS01Fqdn(domain),
                                       recordID |-> 0]]
    /\ pc' = [pc EXCEPT ![p] = "C_read"]
    /\ calls' = [calls EXCEPT !.started = @ + 1]
    /\ UNCHANGED <<recordIDs, remote, created, deleteCalls>>
    /\ AuroraUnchanged

\* recordID, ok := d.recordIDs[fqdn]; Unlock; if !ok return an error
CleanUpRead(p) ==
    /\ pc[p] = "C_read"
    /\ recordIDsMu' = 0
    /\ IF frame[p].fqdn \in DOMAIN recordIDs
       THEN /\ frame' = [frame EXCEPT ![p].recordID = recordIDs[frame[p].fqdn]]
            /\ pc' = [pc EXCEPT ![p] = "C_zone"]
            /\ calls' = calls
       ELSE ReturnFrom(p, TRUE)
    /\ UNCHANGED <<recordIDs, remote, created, deleteCalls>>
    /\ AuroraUnchanged

\* FindZoneByFqdn and getZoneInformationByName in CleanUp: may fail
CleanUpZone(p) ==
    /\ pc[p] = "C_zone"
    /\ \/ /\ pc' = [pc EXCEPT ![p] = "C_delete"]
          /\ UNCHANGED <<frame, calls>>
       \/ ReturnFrom(p, TRUE)
    /\ UNCHANGED <<recordIDs, recordIDsMu, remote, created, deleteCalls>>
    /\ AuroraUnchanged

\* d.client.DeleteRecord(zone.ID, recordID): the request does not reach the
\* service (an error, nothing changes), or the service answers it: it
\* deletes the record, or reports an error when no such record exists
CleanUpDeleteRecord(p) ==
    /\ pc[p] = "C_delete"
    /\ \/ /\ ReturnFrom(p, TRUE)
          /\ UNCHANGED <<remote, deleteCalls>>
       \/ /\ deleteCalls' = [deleteCalls EXCEPT ![frame[p].recordID] = @ + 1]
          /\ IF frame[p].recordID \in remote
             THEN /\ remote' = remote \ {frame[p].recordID}
                  /\ pc' = [pc EXCEPT ![p] = "C_lock"]
                  /\ UNCHANGED <<frame, calls>>
             ELSE /\ remote' = remote
                  /\ ReturnFrom(p, TRUE)
    /\ UNCHANGED <<recordIDs, recordIDsMu, created>>
    /\ AuroraUnchanged

\* the second d.recordIDsMu.Lock() of CleanUp
CleanUpLock(p) ==
    /\ pc[p] = "C_lock"
    /\ recordIDsMu = 0
    /\ recordIDsMu' = p
    /\ pc' = [pc EXCEPT ![p] = "C_remove"]
    /\ UNCHANGED <<recordIDs, frame, remote, created, deleteCalls, calls>>
    /\ AuroraUnchanged

\* delete(d.recordIDs, fqdn); Unlock; return nil
CleanUpRemove(p) ==
    /\ pc[p] = "C_remove"
    /\ recordIDs' = MapDelete(recordIDs, frame[p].fqdn)
    /\ recordIDsMu' = 0
    /\ ReturnFrom(p, FALSE)
    /\ UNCHANGED <<remote, created, deleteCalls>>
    /\ AuroraUnchanged

----------------------------------------------------------------------------
(* Specifications *)

\* no function called yet; NewDNSProviderConfig: an empty recordIDs map
Init ==
    /\ op = "none"
    /\ arg = Nil
    /\ ret = Return(Nil, NoErr)
    /\ recordIDs = [f \in {} |-> 0]
    /\ recordIDsMu = 0
    /\ pc = [p \in Procs |-> "idle"]
    /\ frame = [p \in Procs |-> NoFrame]
    /\ remote = {}
    /\ created = 0
    /\ deleteCalls = [id \in RecordIDs |-> 0]
    /\ calls = [started |-> 0, failed |-> FALSE]

Next ==
    \/ CallParsePEMBundle
    \/ CallParsePEMPrivateKey
    \/ CallPemDecode
    \/ CallPemDecodeTox509CSR
    \/ CallGetPEMCertExpiration
    \/ CallGeneratePrivateKey
    \/ CallGenerateCsr
    \/ CallPEMEncode
    \/ CallGenerateDerCert
    \/ CallGeneratePemCert

\* the certcrypto functions, each applied to every input
Spec == Init /\ [][Next]_vars

NextAurora ==
    \E p \in Procs :
        \/ PresentBegin(p)
        \/ PresentCreateRecord(p)
        \/ PresentLock(p)
        \/ PresentStore(p)
        \/ CleanUpBegin(p)
        \/ CleanUpRead(p)
        \/ CleanUpZone(p)
        \/ CleanUpDeleteRecord(p)
        \/ CleanUpLock(p)
        \/ CleanUpRemove(p)

\* concurrent Present and CleanUp calls on one DNSProvider
SpecAurora == Init /\ [][NextAurora]_vars

----------------------------------------------------------------------------
(* What the claims speak of *)

\* the CERTIFICATE blocks of a stream, in input order
CertificateBlocks(stream) ==
    SelectSeq(stream, LAMBDA item : IsBlock(item) /\ item.Type = "CERTIFICATE")

\* the blocks of a stream with any other label
OtherBlocks(stream) ==
    SelectSeq(stream, LAMBDA item : IsBlock(item) /\ item.Type # "CERTIFICATE")

\* a block whose payload is the whole DER encoding of a certificate
WellFormed(block) == block.Bytes.form = "cert" /\ block.Bytes.intact

AllWellFormed(blocks) == \A i \in 1..Len(blocks) : WellFormed(blocks[i])

\* the stream holds no PEM block at all
NoPEMBlock(stream) == \A i \in 1..Len(stream) : ~IsBlock(stream[i])

----------------------------------------------------------------------------
(* C1 *)

\* C1: on a stream whose CERTIFICATE blocks are all well-formed and that holds
\* at least one, ParsePEMBundle returns one certificate per CERTIFICATE block,
\* in input order, and no error; blocks with other labels contribute nothing.
C1_BundleInOrder ==
    op = "ParsePEMBundle" =>
        LET blocks == CertificateBlocks(arg.data)
        IN  (Len(blocks) >= 1 /\ AllWellFormed(blocks)) =>
                /\ ~ret.panic
                /\ ret.err = NoErr
                /\ Len(ret.val) = Len(blocks)
                /\ \A i \in 1..Len(blocks) : ret.val[i].Raw = blocks[i].Bytes

\* two different certificates with a block of another label among them
C1_Witness ==
    /\ op = "ParsePEMBundle"
    /\ Len(arg.data) = 3
    /\ Len(OtherBlocks(arg.data)) = 1
    /\ Len(CertificateBlocks(arg.data)) = 2
    /\ AllWellFormed(CertificateBlocks(arg.data))
    /\ CertificateBlocks(arg.data)[1] # CertificateBlocks(arg.data)[2]
    /\ ret.err = NoErr
    /\ Len(ret.val) = 2

----------------------------------------------------------------------------
(* C2 *)

\* C2: when any CERTIFICATE block of the stream fails to parse, wherever it
\* stands, ParsePEMBundle returns the parse error and a nil list: never a
\* partial list, and the bad block is never skipped.
C2_BadBlockFailsWhole ==
    (op = "ParsePEMBundle" /\ ~AllWellFormed(CertificateBlocks(arg.data))) =>
            /\ ~ret.panic
            /\ ret.err = "x509: malformed certificate"
            /\ ret.val = <<>>

\* a bad CERTIFICATE block between two well-formed ones
C2_Witness ==
    /\ op = "ParsePEMBundle"
    /\ Len(arg.data) = 3
    /\ Len(CertificateBlocks(arg.data)) = 3
    /\ WellFormed(arg.data[1])
    /\ ~WellFormed(arg.data[2])
    /\ WellFormed(arg.data[3])
    /\ ret.err # NoErr
    /\ ret.val = <<>>

----------------------------------------------------------------------------
(* C3 *)

\* C3: when the stream holds no CERTIFICATE block (no block at all, or only
\* blocks of other labels) ParsePEMBundle fails with the no-certificates
\* error; a parse that succeeds returns a non-empty list.
C3_EmptyBundle ==
    op = "ParsePEMBundle" =>
        /\ Len(CertificateBlocks(arg.data)) = 0 =>
               /\ ~ret.panic
               /\ ret.err = "no certificates were found while parsing the bundle"
               /\ ret.val = <<>>
        /\ ret.err = NoErr => Len(ret.val) > 0

\* a stream of blocks none of which is a CERTIFICATE
C3_Witness ==
    /\ op = "ParsePEMBundle"
    /\ Len(arg.data) >= 2
    /\ Len(OtherBlocks(arg.data)) = Len(arg.data)
    /\ ret.err = "no certificates were found while parsing the bundle"

----------------------------------------------------------------------------
(* C4 *)

\* C4: pemDecode, PemDecodeTox509CSR, GetPEMCertExpiration and
\* ParsePEMPrivateKey, given input with no PEM block, return an error and no
\* value; none of them panics.
C4_NoBlockIsAnError ==
    (/\ op \in {"pemDecode", "PemDecodeTox509CSR", "GetPEMCertExpiration",
                "ParsePEMPrivateKey"}
     /\ NoPEMBlock(arg.data)) =>
        /\ ~ret.panic
        /\ ret.err # NoErr
        /\ ret.val \in {Nil, ZeroTime}

----------------------------------------------------------------------------
(* C5 *)

EncodableTypes ==
    {"*ecdsa.PrivateKey", "*rsa.PrivateKey", "*x509.CertificateRequest",
     "DERCertificateBytes"}

LabelOf(gotype) ==
    CASE gotype = "*ecdsa.PrivateKey" -> "EC PRIVATE KEY"
      [] gotype = "*rsa.PrivateKey" -> "RSA PRIVATE KEY"
      [] gotype = "*x509.CertificateRequest" -> "CERTIFICATE REQUEST"
      [] gotype = "DERCertificateBytes" -> "CERTIFICATE"

\* C5: PEMEncode of a value outside the four encodable types fails with an
\* unsupported-type error, without a panic and without an empty buffer; of a
\* value inside it emits one PEM block with the label of its type.
C5_EncodeClosedSet ==
    op = "PEMEncode" =>
        IF arg.data.gotype \in EncodableTypes
        THEN /\ ~ret.panic
             /\ Len(ret.val) = 1
             /\ ret.val[1].Type = LabelOf(arg.data.gotype)
        ELSE /\ ~ret.panic
             /\ ret.err # NoErr

----------------------------------------------------------------------------
(* C6 *)

\* a day, in seconds
DaySeconds == 24 * 60 * 60

\* C6: with no expiration supplied the self-signed certificate has NotBefore
\* at the current time and NotAfter at least one whole day after the time of
\* the call, so after NotBefore; with an expiration supplied NotAfter is it.
C6_DefaultValidity ==
    (op \in {"generateDerCert", "GeneratePemCert"} /\ ~ret.panic /\ ret.err = NoErr) =>
        LET der == IF op = "GeneratePemCert" THEN ret.val[1].Bytes ELSE ret.val
            cert == der.body
        IN  IF IsZero(arg.expiration)
            THEN /\ ~Before(cert.NotBefore, arg.now)
                 /\ ~Before(cert.NotAfter,
                            Time(arg.now.sec + DaySeconds, arg.now.nsec))
                 /\ Before(cert.NotBefore, cert.NotAfter)
            ELSE cert.NotAfter = arg.expiration

----------------------------------------------------------------------------
(* C7 *)

\* the key each recognized KeyType stands for
IsKeyOf(key, keyType) ==
    CASE keyType = "P256" -> key.gotype = "*ecdsa.PrivateKey" /\ key.curve = "P-256"
      [] keyType = "P384" -> key.gotype = "*ecdsa.PrivateKey" /\ key.curve = "P-384"
      [] keyType = "2048" -> key.gotype = "*rsa.PrivateKey" /\ key.bits = 2048
      [] keyType = "4096" -> key.gotype = "*rsa.PrivateKey" /\ key.bits = 4096
      [] keyType = "8192" -> key.gotype = "*rsa.PrivateKey" /\ key.bits = 8192

\* C7: GeneratePrivateKey returns the invalid-KeyType error and a nil key for
\* every KeyType outside the five recognized ones, and for each of the five a
\* key of the matching variant and no error.
C7_KeyTypeDispatch ==
    op = "GeneratePrivateKey" =>
        IF arg.keyType \in {"P256", "P384", "2048", "4096", "8192"}
        THEN ret.err = NoErr /\ ret.val # Nil /\ IsKeyOf(ret.val, arg.keyType)
        ELSE ret.err = "invalid KeyType" /\ ret.val = Nil

\* an RSA key of 4096 bits was asked for and made
C7_Witness ==
    /\ op = "GeneratePrivateKey"
    /\ arg.keyType = "4096"
    /\ ret.err = NoErr
    /\ ret.val.gotype = "*rsa.PrivateKey"
    /\ ret.val.bits = 4096

----------------------------------------------------------------------------
(* C8 *)

\* C8: the request GenerateCsr builds carries exactly one extra extension,
\* OID 1.3.6.1.5.5.7.1.24 with value 30 03 02 01 05, when mustStaple is set
\* and none when it is not, whatever the common name and the SAN list; a
\* non-empty SAN list is attached as given, in order.
C8_MustStaple ==
    (op = "GenerateCsr" /\ ret.err = NoErr) =>
        LET csr == ret.val.body
        IN  /\ csr.Subject.CommonName = arg.domain
            /\ IF arg.mustStaple
               THEN csr.ExtraExtensions =
                        <<[Id |-> <<1, 3, 6, 1, 5, 5, 7, 1, 24>>,
                           Value |-> <<48, 3, 2, 1, 5>>]>>
               ELSE csr.ExtraExtensions = <<>>
            /\ Len(arg.san) > 0 => csr.DNSNames = arg.san

\* a must-staple request with two different SAN names
C8_Witness ==
    /\ op = "GenerateCsr"
    /\ ret.err = NoErr
    /\ arg.mustStaple
    /\ Len(arg.san) = 2
    /\ arg.san[1] # arg.san[2]
    /\ Len(ret.val.body.ExtraExtensions) = 1
    /\ ret.val.body.DNSNames = arg.san

----------------------------------------------------------------------------
(* C9 *)

\* C9: whatever the interleaving of CleanUp calls, the service is asked to
\* delete each record id at most once.
C9_NoDoubleDelete == \A id \in RecordIDs : deleteCalls[id] <= 1

----------------------------------------------------------------------------
(* C10 *)

AllIdle == \A p \in Procs : pc[p] = "idle"

Tracked(id) == \E f \in DOMAIN recordIDs : recordIDs[f] = id

\* C10: after Present and CleanUp calls that all succeeded, every record that
\* exists at the service has its id in recordIDs.
C10_NoLeakedRecord ==
    (AllIdle /\ ~calls.failed) => \A id \in remote : Tracked(id)

====
